---------------------------- MODULE Spec2Model ----------------------------
(*************************************************************************)
(* Option pricing engines of the repository:                             *)
(*   - price_option            (src/binomial_pricing.py)                 *)
(*   - build_payoff_function   (src/monte_carlo_pricing.py)              *)
(*   - price_option_monte_carlo (src/monte_carlo_pricing.py)             *)
(*                                                                       *)
(* Numbers.  Python floats are modelled by exact rationals [n, d] in     *)
(* lowest terms.  math.exp is modelled with base 2 instead of base e     *)
(* (math_exp(x) = 2^x) on integer arguments and math.sqrt on perfect     *)
(* squares, so every derived quantity is an exact rational; the inputs   *)
(* are drawn so that the arguments of math_exp and math_sqrt are         *)
(* representable.  Rounding, overflow to inf and NaN are not modelled.   *)
(*************************************************************************)
EXTENDS Integers, Sequences, FiniteSets, TLC

None == "None"

(*************************************************************************)
(* Exact rational arithmetic standing for float arithmetic.              *)
(*************************************************************************)
Abs(x) == IF x < 0 THEN -x ELSE x

RECURSIVE GCD(_, _)
GCD(a, b) == IF b = 0 THEN a ELSE GCD(b, a % b)

Rat(n, d) ==
    LET g == GCD(Abs(n), Abs(d))
        s == IF d < 0 THEN -1 ELSE 1
    IN  [n |-> s * (n \div g), d |-> s * (d \div g)]

Q(n) == [n |-> n, d |-> 1]

LCM(a, b) == (a \div GCD(a, b)) * b

RAdd(x, y) ==
    LET l == LCM(x.d, y.d)
    IN  Rat(x.n * (l \div x.d) + y.n * (l \div y.d), l)

RNeg(x) == [n |-> -x.n, d |-> x.d]

RSub(x, y) == RAdd(x, RNeg(y))

RMul(x, y) ==
    LET a == Rat(x.n, y.d)
        b == Rat(y.n, x.d)
    IN  [n |-> a.n * b.n, d |-> a.d * b.d]

RInv(x) == Rat(x.d, x.n)

RDiv(x, y) == RMul(x, RInv(y))

RLe(x, y) == RSub(x, y).n <= 0

RLt(x, y) == RSub(x, y).n < 0

RMax(x, y) == IF RLt(x, y) THEN y ELSE x

RECURSIVE IntPow(_, _)
IntPow(b, k) == IF k = 0 THEN 1 ELSE b * IntPow(b, k - 1)

\* x ** k for a float x and a non-negative int k.
RPow(x, k) == [n |-> IntPow(x.n, k), d |-> IntPow(x.d, k)]

\* math.exp, base 2 in place of e, on an integer argument.
math_exp(x) == IF x >= 0 THEN Q(IntPow(2, x)) ELSE Rat(1, IntPow(2, -x))

IsSquare(x) == \E r \in 0..x : r * r = x

\* math.sqrt on a perfect square.
math_sqrt(x) == CHOOSE r \in 0..x : r * r = x


(*************************************************************************)
(* State: one call of price_option and its locals; one caller of         *)
(* build_payoff_function and the callable it got; a caller making        *)
(* successive calls of price_option_monte_carlo.                         *)
(*************************************************************************)
VARIABLES
    lat_pc,          \* position inside price_option
    params,          \* BinomialParameters of the call
    coeff,           \* dt, up, down, discount, growth, probability
    asset_prices,    \* list built at lines 92-95 (<<>> until built)
    option_values,   \* the buffer updated in place (<<>> until built)
    step,            \* outer loop variable
    pos,             \* position in range(step + 1) of the inner loop
    price,           \* value returned by price_option (NoValue until then)
    lat_err          \* exception raised by price_option ("" when none)

lat_vars == <<lat_pc, params, coeff, asset_prices, option_values, step, pos,
              price, lat_err>>

VARIABLES
    sb_pc,           \* position of the caller of build_payoff_function
    expression,      \* the expression text (by its derivation)
    payoff_fn,       \* the callable returned (NoNode when none)
    sb_err,          \* exception class raised by build_payoff_function
    sb_msg,          \* its message, as the pieces it is formatted from
    compile_calls,   \* calls of compile() made
    eval_calls,      \* calls of eval() made by the returned callable
    value            \* outcome of the last payoff(price) call

sb_vars == <<sb_pc, expression, payoff_fn, sb_err, sb_msg, compile_calls,
             eval_calls, value>>

VARIABLES
    mc_pc,           \* position inside price_option_monte_carlo
    mc_params,       \* MonteCarloParameters of the call
    mc_payoff,       \* the payoff callable passed to it
    rng,             \* state of the call's random.Random (NoRng until made)
    mc_coeff,        \* drift, diffusion
    payoff_sum,      \* accumulator
    path,            \* paths completed by the loop
    draws,           \* the variates drawn by this call, in draw order
    mc_price,        \* value returned (NoValue until then)
    mc_err,          \* exception the call ended with ("" when none)
    history,         \* finished calls, in call order
    calls            \* calls started

mc_vars == <<mc_pc, mc_params, mc_payoff, rng, mc_coeff, payoff_sum, path,
             draws, mc_price, mc_err, history, calls>>

vars == <<lat_vars, sb_vars, mc_vars>>

\* "No float here": a denominator no float has.
NoValue == [n |-> 0, d |-> 0]

NoCoeff == [dt |-> NoValue, up |-> NoValue, down |-> NoValue,
            discount |-> NoValue, growth |-> NoValue, probability |-> NoValue]

\* Python list indexing (0-based) on a TLA+ sequence.
At(list, i) == list[i + 1]

\* list[i] = v
Put(list, i, v) == [list EXCEPT ![i + 1] = v]

(*************************************************************************)
(* price_option, src/binomial_pricing.py                                 *)
(*************************************************************************)
\* The first check of _validate_parameters with the boundary left out.
SpotCheck_strict(p) == p.spot < 0

\* if params.spot <= 0: raise
SpotCheck(p) == p.spot <= 0

\* _validate_parameters: TRUE when it raises InvalidParameterError.
validate_parameters_raises(p) ==
    \/ SpotCheck(p)
    \/ p.strike <= 0
    \/ p.maturity <= 0
    \/ p.volatility <= 0
    \/ p.steps <= 0
    \/ p.option_type \notin {"call", "put"}

\* Lines 78-84: the derived per-step quantities.
Derive(p) ==
    LET dt_      == p.maturity \div p.steps
        up_      == math_exp(p.volatility * math_sqrt(dt_))
        down_    == RDiv(Q(1), up_)
        disc_    == math_exp(-p.rate * dt_)
        growth_  == math_exp((p.rate - p.dividend_yield) * dt_)
    IN  [dt |-> Q(dt_), up |-> up_, down |-> down_, discount |-> disc_,
         growth |-> growth_,
         probability |-> RDiv(RSub(growth_, down_), RSub(up_, down_))]

\* A range check that lets every probability through.
ProbabilityInRange_always(pr) == TRUE

\* 0 <= probability <= 1
ProbabilityInRange(pr) == RLe(Q(0), pr) /\ RLe(pr, Q(1))

\* The nested payoff(price) of price_option.
payoff(p, x) ==
    IF p.option_type = "call"
    THEN RMax(RSub(x, Q(p.strike)), Q(0))
    ELSE RMax(RSub(Q(p.strike), x), Q(0))

\* spot * (up ** a) * (down ** b)
NodePrice(p, c, a, b) == RMul(RMul(Q(p.spot), RPow(c.up, a)), RPow(c.down, b))

\* Lines 92-95.
TerminalPrices(p, c) == [k \in 1..(p.steps + 1) |-> NodePrice(p, c, k - 1, p.steps - (k - 1))]

\* Line 102.
TerminalValues(p, c) ==
    LET a == TerminalPrices(p, c) IN [k \in 1..Len(a) |-> payoff(p, a[k])]

\* Lines 107-110.
Continuation(c, values, i) ==
    RMul(c.discount,
         RAdd(RMul(c.probability, At(values, i + 1)),
              RMul(RSub(Q(1), c.probability), At(values, i))))

\* An early-exercise rule that keeps the smaller of the two values.
NodeValue_min(p, c, values, s, i) ==
    LET cont == Continuation(c, values, i)
        ex   == payoff(p, NodePrice(p, c, i, s - i))
    IN  IF p.american THEN (IF RLt(cont, ex) THEN cont ELSE ex) ELSE cont

\* Lines 111-115: the value stored at node i of level s.
NodeValue(p, c, values, s, i) ==
    LET cont == Continuation(c, values, i)
    IN  IF p.american
        THEN RMax(cont, payoff(p, NodePrice(p, c, i, s - i)))
        ELSE cont

\* An inner loop that walks the nodes of a level from the top down.
InnerOrder_descending(s) == [k \in 1..(s + 1) |-> s + 1 - k]

\* range(step + 1): the order in which the inner loop visits the nodes.
InnerOrder(s) == [k \in 1..(s + 1) |-> k - 1]

\* One pass of the inner loop body at position k of level s.
NodeUpdate(p, c, values, s, k) ==
    LET i == InnerOrder(s)[k]
    IN  Put(values, i, NodeValue(p, c, values, s, i))

RECURSIVE RunLevel(_, _, _, _, _)
\* The inner loop of level s from position k to its end.
RunLevel(p, c, values, s, k) ==
    IF k > s + 1 THEN values
    ELSE RunLevel(p, c, NodeUpdate(p, c, values, s, k), s, k + 1)

RECURSIVE BufferAfter(_, _, _)
\* option_values when the outer loop has finished level s (s = steps:
\* before the loop).
BufferAfter(p, c, s) ==
    IF s >= p.steps THEN TerminalValues(p, c)
    ELSE RunLevel(p, c, BufferAfter(p, c, s + 1), s, 1)

LatValidate ==
    /\ lat_pc = "call"
    /\ IF validate_parameters_raises(params)
       THEN /\ lat_pc' = "raised"
            /\ lat_err' = "InvalidParameterError"
       ELSE /\ lat_pc' = "validated"
            /\ UNCHANGED lat_err
    /\ UNCHANGED <<params, coeff, asset_prices, option_values, step, pos, price>>
    /\ UNCHANGED <<sb_vars, mc_vars>>

LatDerive ==
    /\ lat_pc = "validated"
    /\ coeff' = Derive(params)
    /\ IF ProbabilityInRange(coeff'.probability)
       THEN /\ lat_pc' = "checked"
            /\ UNCHANGED lat_err
       ELSE /\ lat_pc' = "raised"
            /\ lat_err' = "InvalidParameterError"
    /\ UNCHANGED <<params, asset_prices, option_values, step, pos, price>>
    /\ UNCHANGED <<sb_vars, mc_vars>>

LatTerminal ==
    /\ lat_pc = "checked"
    /\ asset_prices' = TerminalPrices(params, coeff)
    /\ option_values' = TerminalValues(params, coeff)
    /\ step' = params.steps - 1
    /\ pos' = 1
    /\ lat_pc' = "induct"
    /\ UNCHANGED <<params, coeff, price, lat_err>>
    /\ UNCHANGED <<sb_vars, mc_vars>>

LatNode ==
    /\ lat_pc = "induct"
    /\ step >= 0
    /\ option_values' = NodeUpdate(params, coeff, option_values, step, pos)
    /\ IF pos < step + 1
       THEN /\ pos' = pos + 1
            /\ UNCHANGED step
       ELSE /\ pos' = 1
            /\ step' = step - 1
    /\ UNCHANGED <<lat_pc, params, coeff, asset_prices, price, lat_err>>
    /\ UNCHANGED <<sb_vars, mc_vars>>

LatReturn ==
    /\ lat_pc = "induct"
    /\ step < 0
    /\ price' = At(option_values, 0)
    /\ lat_pc' = "done"
    /\ UNCHANGED <<params, coeff, asset_prices, option_values, step, pos, lat_err>>
    /\ UNCHANGED <<sb_vars, mc_vars>>

NextLattice == LatValidate \/ LatDerive \/ LatTerminal \/ LatNode \/ LatReturn

\* Largest number of steps drawn.
MaxSteps == 3

\* Parameter sets the calls are drawn from; a valid call is drawn only when
\* math_exp and math_sqrt are exact on it.
Representable(p) ==
    validate_parameters_raises(p) \/
        (p.maturity % p.steps = 0 /\ IsSquare(p.maturity \div p.steps)
         /\ p.volatility * math_sqrt(p.maturity \div p.steps) <= 2)

LatticeInputs ==
    { p \in [spot : {-1, 0, 8}, strike : {-1, 0, 4, 8},
             maturity : {-1, 0} \cup {s * k * k : s \in 1..MaxSteps, k \in 1..2},
             rate : {-1, 0, 1, 2}, volatility : {-1, 0, 1, 2},
             steps : -1..MaxSteps, dividend_yield : {0, 1},
             option_type : {"call", "put", "straddle"},
             american : BOOLEAN] : Representable(p) }

InitLatticeVars ==
    /\ coeff = NoCoeff
    /\ asset_prices = <<>>
    /\ option_values = <<>>
    /\ step = 0
    /\ pos = 0
    /\ price = NoValue
    /\ lat_err = ""

(*************************************************************************)
(* Properties of price_option.                                           *)
(*************************************************************************)
\* 0 <= x <= 1 read off the fraction itself.
InUnitInterval(x) == x.d > 0 /\ 0 <= x.n /\ x.n <= x.d

\* C4: whenever the derived risk-neutral probability lies outside [0,1]
\* the call has failed with InvalidParameterError with no terminal array
\* built and no price returned; the stored probability is always the
\* unclamped (growth - down) / (up - down); every returned price was
\* computed with a probability in [0,1].
C4_OutOfRangeProbabilityAborts ==
    /\ (coeff # NoCoeff /\ ~InUnitInterval(coeff.probability)) =>
           /\ lat_pc = "raised"
           /\ lat_err = "InvalidParameterError"
           /\ asset_prices = <<>>
           /\ option_values = <<>>
           /\ price = NoValue
    /\ coeff # NoCoeff =>
           coeff.probability =
               RDiv(RSub(coeff.growth, coeff.down), RSub(coeff.up, coeff.down))
    /\ price # NoValue => InUnitInterval(coeff.probability)

\* A call that derived a probability above 1 and was aborted.
C4_Witness ==
    /\ lat_pc = "raised"
    /\ coeff # NoCoeff
    /\ coeff.probability.n > coeff.probability.d

EuropeanOf(p) == [p EXCEPT !.american = FALSE]

\* The nodes the inner loop of level s has already written before
\* position k.
Written(s, k) == { InnerOrder(s)[m] : m \in 1..(k - 1) }

\* C8: with american=True the returned price is >= the price of the same
\* parameters with american=False, and at every node of every backward
\* step the American value is >= the European value at the same node.
C8_AmericanAtLeastEuropean ==
    (params.american /\ lat_pc \in {"induct", "done"}) =>
        LET e == EuropeanOf(params)
        IN  /\ \A j \in 0..(step + 1) :
                  LET eur == IF j \in Written(step, pos)
                             THEN At(BufferAfter(e, coeff, step), j)
                             ELSE At(BufferAfter(e, coeff, step + 1), j)
                  IN  RLe(eur, At(option_values, j))
            /\ lat_pc = "done" => RLe(At(BufferAfter(e, coeff, 0), 0), price)

\* An American price strictly above the European one has been returned.
C8_Witness ==
    /\ lat_pc = "done"
    /\ params.american
    /\ RLt(At(BufferAfter(EuropeanOf(params), coeff, 0), 0), price)

RECURSIVE ReferenceLevel(_, _, _)
\* Backward induction with a separate array per level: level s is
\* computed from the untouched array of level s + 1.
ReferenceLevel(p, c, s) ==
    IF s >= p.steps THEN TerminalValues(p, c)
    ELSE LET later == ReferenceLevel(p, c, s + 1)
         IN  [k \in 1..(s + 1) |-> NodeValue(p, c, later, s, k - 1)]

\* C10: at each step and node the two values the in-place loop reads,
\* option_values[i+1] and option_values[i], are still the values of the
\* later level, and the returned option_values[0] equals the result of
\* the two-array recursion.
C10_InPlaceEqualsTwoArray ==
    /\ (lat_pc = "induct" /\ step >= 0) =>
           LET i     == InnerOrder(step)[pos]
               later == ReferenceLevel(params, coeff, step + 1)
           IN  /\ At(option_values, i + 1) = At(later, i + 1)
               /\ At(option_values, i) = At(later, i)
    /\ lat_pc = "done" => price = At(ReferenceLevel(params, coeff, 0), 0)

\* An American price over at least two levels, above zero, has been
\* returned.
C10_Witness ==
    /\ lat_pc = "done"
    /\ params.steps >= 2
    /\ params.american
    /\ price.n > 0

(*************************************************************************)
(* Expression sandbox, src/monte_carlo_pricing.py.                       *)
(*                                                                       *)
(* A syntax tree node is [kind, id, const, kids]: kind is the ast class  *)
(* name, id the identifier of a Name (the attr of an Attribute, the arg  *)
(* of a keyword), const the value of a Constant and kids the child nodes *)
(* in the order of the class's _fields (operators are nodes of their     *)
(* own, as in ast; the ctx of a Name is left out: visit_Name never       *)
(* visits it).                                                           *)
(*************************************************************************)
NoConst == [ctype |-> "", num |-> 0, text |-> ""]

Node(kind, id, const, kids) ==
    [kind |-> kind, id |-> id, const |-> const, kids |-> kids]

NoNode == Node("", "", NoConst, <<>>)

Name(id) == Node("Name", id, NoConst, <<>>)

\* A numeric literal.
Num(v) == Node("Constant", "", [ctype |-> "int", num |-> v, text |-> ""], <<>>)

\* A literal of another type: "str", "bytes", "bool", "NoneType", "ellipsis".
Lit(ctype, v, text) ==
    Node("Constant", "", [ctype |-> ctype, num |-> v, text |-> text], <<>>)

Op(kind) == Node(kind, "", NoConst, <<>>)

BinOp(l, op, r) == Node("BinOp", "", NoConst, <<l, Op(op), r>>)

UnaryOp(op, x) == Node("UnaryOp", "", NoConst, <<Op(op), x>>)

Compare(l, op, r) == Node("Compare", "", NoConst, <<l, Op(op), r>>)

IfExp(t, b, o) == Node("IfExp", "", NoConst, <<t, b, o>>)

Call(f, args) == Node("Call", "", NoConst, <<f>> \o args)

Attribute(v, attr) == Node("Attribute", attr, NoConst, <<v>>)

Expression(body) == Node("Expression", "", NoConst, <<body>>)

_ALLOWED_NAMES == {"max", "min", "abs", "math"}

_ALLOWED_NODES ==
    {"Expression", "BinOp", "UnaryOp", "Call", "Name", "Load", "Constant",
     "Add", "Sub", "Mult", "Div", "Pow", "Mod", "USub", "UAdd", "FloorDiv",
     "LShift", "RShift", "BitOr", "BitAnd", "BitXor", "Compare", "Gt", "GtE",
     "Lt", "LtE", "Eq", "NotEq", "IfExp"}

\* ast.parse(expression, mode="eval"): an expression text parses to an
\* Expression node; a statement or a malformed text is a SyntaxError.
ast_parse(text) ==
    IF text.form = "expr"
    THEN [ok |-> TRUE, tree |-> Expression(text.tree)]
    ELSE [ok |-> FALSE, tree |-> NoNode]

NoError == [raised |-> FALSE, msg |-> <<>>]

Raise(msg) == [raised |-> TRUE, msg |-> msg]

ParseMessage == <<"Payoff expression could not be parsed.">>

CallMessage == <<"Only simple function calls like max/min/abs are allowed.">>

RECURSIVE visit(_)
RECURSIVE generic_visit(_)
RECURSIVE visit_children(_, _)
RECURSIVE visit_Call(_)

\* visit_Name.
visit_Name(node) ==
    IF node.id \notin _ALLOWED_NAMES /\ node.id # "S"
    THEN Raise(<<"Unknown identifier '", node.id, "'. Use 'S' for price.">>)
    ELSE NoError

\* A visit_Call that checks the callee and forgets to visit the children.
visit_Call_shallow(node) ==
    LET func == node.kids[1]
    IN  IF func.kind # "Name" \/ func.id \notin _ALLOWED_NAMES
        THEN Raise(CallMessage)
        ELSE NoError

\* visit_Call.
visit_Call(node) ==
    LET func == node.kids[1]
    IN  IF func.kind # "Name" \/ func.id \notin _ALLOWED_NAMES
        THEN Raise(CallMessage)
        ELSE generic_visit(node)

\* _SafeExpressionValidator.visit: the allow-list check, then
\* NodeVisitor.visit's dispatch on the class name.
visit(node) ==
    IF node.kind \notin _ALLOWED_NODES
    THEN Raise(<<"Unsafe expression component: ", node.kind, ".">>)
    ELSE IF node.kind = "Call" THEN visit_Call(node)
    ELSE IF node.kind = "Name" THEN visit_Name(node)
    ELSE generic_visit(node)

\* NodeVisitor.generic_visit: the child nodes in field order.
generic_visit(node) == visit_children(node.kids, 1)

visit_children(kids, k) ==
    IF k > Len(kids) THEN NoError
    ELSE LET r == visit(kids[k])
         IN  IF r.raised THEN r ELSE visit_children(kids, k + 1)

\* build_payoff_function: what it raises or returns, and whether it got
\* as far as compile().
build_payoff_function(text) ==
    LET parsed == ast_parse(text)
    IN  IF ~parsed.ok
        THEN [err |-> "InvalidPayoffError", msg |-> ParseMessage,
              fn |-> NoNode, compiled |-> 0]
        ELSE LET v == visit(parsed.tree)
             IN  IF v.raised
                 THEN [err |-> "InvalidPayoffError", msg |-> v.msg,
                       fn |-> NoNode, compiled |-> 0]
                 ELSE [err |-> "", msg |-> <<>>, fn |-> parsed.tree,
                       compiled |-> 1]

(*************************************************************************)
(* The callable returned by build_payoff_function: eval() of the tree    *)
(* with S bound to the price, then float().  A Python value is           *)
(* [t, q, s]: its type name, its number and its text.  Operations whose  *)
(* Python result is not a number or an exception here (str + str, ...)   *)
(* and the operators not listed in ApplyBin evaluate to Unmodelled; the  *)
(* model takes no evaluation step on such an expression.                 *)
(*************************************************************************)
Val(t, q, s) == [t |-> t, q |-> q, s |-> s]

Exc(name) == Val("exception", NoValue, name)

Unmodelled == Val("unmodelled", NoValue, "")

Stops(v) == v.t \in {"exception", "unmodelled"}

IsNum(v) == v.t \in {"float", "int", "bool"}

\* Result type of an arithmetic operation on two numbers.
NumType(a, b) == IF a.t = "float" \/ b.t = "float" THEN "float" ELSE "int"

\* math.floor of a rational.
Floor(x) == x.n \div x.d

ApplyBin(op, a, b) ==
    IF IsNum(a) /\ IsNum(b)
    THEN CASE op = "Add"  -> Val(NumType(a, b), RAdd(a.q, b.q), "")
           [] op = "Sub"  -> Val(NumType(a, b), RSub(a.q, b.q), "")
           [] op = "Mult" -> Val(NumType(a, b), RMul(a.q, b.q), "")
           [] op = "Div"  -> IF b.q.n = 0 THEN Exc("ZeroDivisionError")
                             ELSE Val("float", RDiv(a.q, b.q), "")
           [] op = "FloorDiv" ->
                             IF b.q.n = 0 THEN Exc("ZeroDivisionError")
                             ELSE Val(NumType(a, b), Q(Floor(RDiv(a.q, b.q))), "")
           [] op = "Pow"  -> IF b.q.d = 1 /\ b.q.n >= 0 /\ b.q.n <= 3
                             THEN Val(NumType(a, b), RPow(a.q, b.q.n), "")
                             ELSE Unmodelled
           [] OTHER       -> Unmodelled
    ELSE IF Stops(a) \/ Stops(b) THEN Unmodelled
    ELSE IF op \in {"Sub", "Div", "FloorDiv", "Pow"} THEN Exc("TypeError")
    ELSE Unmodelled

ApplyCompare(op, a, b) ==
    IF IsNum(a) /\ IsNum(b)
    THEN LET r == CASE op = "Gt"    -> RLt(b.q, a.q)
                    [] op = "GtE"   -> RLe(b.q, a.q)
                    [] op = "Lt"    -> RLt(a.q, b.q)
                    [] op = "LtE"   -> RLe(a.q, b.q)
                    [] op = "Eq"    -> a.q = b.q
                    [] op = "NotEq" -> a.q # b.q
         IN  Val("bool", Q(IF r THEN 1 ELSE 0), "")
    ELSE Unmodelled

ApplyUnary(op, a) ==
    IF IsNum(a)
    THEN Val(IF a.t = "bool" THEN "int" ELSE a.t,
             IF op = "USub" THEN RNeg(a.q) ELSE a.q, "")
    ELSE Exc("TypeError")

\* bool(v)
Truth(v) ==
    IF IsNum(v) THEN v.q.n # 0
    ELSE IF v.t \in {"str", "bytes"} THEN v.s # ""
    ELSE v.t # "NoneType"

RECURSIVE Extreme(_, _, _, _)
\* max(*args) / min(*args) on numbers: the first extreme item.
Extreme(fn, args, k, best) ==
    IF k > Len(args) THEN best
    ELSE LET better == IF fn = "max" THEN RLt(best.q, args[k].q)
                       ELSE RLt(args[k].q, best.q)
         IN  Extreme(fn, args, k + 1, IF better THEN args[k] ELSE best)

\* Calling the value bound to an allow-listed name.
ApplyCall(f, args) ==
    LET numeric == \A k \in 1..Len(args) : IsNum(args[k])
    IN  IF f.t = "module" THEN Exc("TypeError")
        ELSE IF f.t # "builtin_function_or_method" THEN Unmodelled
        ELSE IF f.s = "abs"
             THEN IF Len(args) = 1 /\ numeric
                  THEN Val(IF args[1].t = "bool" THEN "int" ELSE args[1].t,
                           [n |-> Abs(args[1].q.n), d |-> args[1].q.d], "")
                  ELSE Exc("TypeError")
        ELSE IF Len(args) = 0 THEN Exc("TypeError")
        ELSE IF Len(args) = 1
             THEN IF args[1].t \in {"str", "bytes"} THEN Unmodelled
                  ELSE Exc("TypeError")
        ELSE IF numeric THEN Extreme(f.s, args, 2, args[1])
        ELSE Unmodelled

\* The names eval() can see: {**_ALLOWED_NAMES, "S": price}.
Lookup(id, S) ==
    IF id = "S" THEN Val("float", S, "")
    ELSE IF id = "math" THEN Val("module", NoValue, "math")
    ELSE Val("builtin_function_or_method", NoValue, id)

RECURSIVE Eval(_, _)
RECURSIVE EvalArgs(_, _, _, _)

\* The arguments of a call, left to right; the first exception wins.
EvalArgs(kids, k, S, acc) ==
    IF k > Len(kids) THEN [stop |-> FALSE, v |-> Unmodelled, args |-> acc]
    ELSE LET a == Eval(kids[k], S)
         IN  IF Stops(a) THEN [stop |-> TRUE, v |-> a, args |-> acc]
             ELSE EvalArgs(kids, k + 1, S, Append(acc, a))

Eval(node, S) ==
    CASE node.kind = "Expression" -> Eval(node.kids[1], S)
      [] node.kind = "Constant" ->
             Val(node.const.ctype, Q(node.const.num), node.const.text)
      [] node.kind = "Name" -> Lookup(node.id, S)
      [] node.kind = "UnaryOp" ->
             LET a == Eval(node.kids[2], S)
             IN  IF Stops(a) THEN a ELSE ApplyUnary(node.kids[1].kind, a)
      [] node.kind = "BinOp" ->
             LET a == Eval(node.kids[1], S)
             IN  IF Stops(a) THEN a
                 ELSE LET b == Eval(node.kids[3], S)
                      IN  IF Stops(b) THEN b
                          ELSE ApplyBin(node.kids[2].kind, a, b)
      [] node.kind = "Compare" ->
             LET a == Eval(node.kids[1], S)
             IN  IF Stops(a) THEN a
                 ELSE LET b == Eval(node.kids[3], S)
                      IN  IF Stops(b) THEN b
                          ELSE ApplyCompare(node.kids[2].kind, a, b)
      [] node.kind = "IfExp" ->
             LET t == Eval(node.kids[1], S)
             IN  IF Stops(t) THEN t
                 ELSE IF Truth(t) THEN Eval(node.kids[2], S)
                 ELSE Eval(node.kids[3], S)
      [] node.kind = "Call" ->
             LET f == Eval(node.kids[1], S)
                 r == EvalArgs(node.kids, 2, S, <<>>)
             IN  IF Stops(f) THEN f
                 ELSE IF r.stop THEN r.v
                 ELSE ApplyCall(f, r.args)
      [] OTHER -> Unmodelled

\* float(text) for the string and bytes literals of the model.
FloatOfText(text) ==
    CASE text = "2"   -> Val("float", Q(2), "")
      [] text = "1.5" -> Val("float", Rat(3, 2), "")
      [] OTHER        -> Exc("ValueError")

\* float(v)
float(v) ==
    IF IsNum(v) THEN Val("float", v.q, "")
    ELSE IF v.t \in {"str", "bytes"} THEN FloatOfText(v.s)
    ELSE Exc("TypeError")

\* payoff(price) of build_payoff_function.
payoff_call(fn, S) ==
    LET r == Eval(fn, S) IN IF Stops(r) THEN r ELSE float(r)

NoOutcome == [price |-> NoValue, out |-> Val("", NoValue, "")]

\* Largest number of evaluations of one compiled payoff.
MaxEvals == 2

EvalPrices == {Q(80), Q(100), Q(120)}

SbBuild ==
    /\ sb_pc = "call"
    /\ LET r == build_payoff_function(expression)
       IN  /\ sb_err' = r.err
           /\ sb_msg' = r.msg
           /\ payoff_fn' = r.fn
           /\ compile_calls' = compile_calls + r.compiled
           /\ sb_pc' = IF r.err = "" THEN "returned" ELSE "raised"
    /\ UNCHANGED <<expression, eval_calls, value>>
    /\ UNCHANGED <<lat_vars, mc_vars>>

SbEvaluate ==
    /\ sb_pc = "returned"
    /\ eval_calls < MaxEvals
    /\ \E S \in EvalPrices :
          LET r == payoff_call(payoff_fn, S)
          IN  /\ r.t # "unmodelled"
              /\ value' = [price |-> S, out |-> r]
    /\ eval_calls' = eval_calls + 1
    /\ UNCHANGED <<sb_pc, expression, payoff_fn, sb_err, sb_msg, compile_calls>>
    /\ UNCHANGED <<lat_vars, mc_vars>>

NextSandbox == SbBuild \/ SbEvaluate

(*************************************************************************)
(* Expression texts the sandbox is tried on.                             *)
(*************************************************************************)
Leaves ==
    {Name("S"), Name("x"), Name("math"), Name("max"), Num(0), Num(100),
     Lit("str", 0, "2"), Lit("str", 0, "abc"), Lit("NoneType", 0, ""),
     Lit("bool", 1, ""), Lit("ellipsis", 0, ""), Lit("bytes", 0, "a")}

Operands == {Name("S"), Name("x"), Num(0), Num(100), Lit("str", 0, "2")}

Callees ==
    {Name("max"), Name("min"), Name("abs"), Name("foo"), Name("S"),
     Name("math"), Attribute(Name("math"), "exp"),
     Attribute(Name("math"), "log"), Attribute(Name("S"), "real"),
     Node("Lambda", "", NoConst, <<Node("arguments", "", NoConst, <<>>), Num(0)>>)}

Level1 ==
    Leaves
    \cup {BinOp(a, op, b) : a \in Operands, b \in Operands,
                            op \in {"Add", "Sub", "Mult", "Div", "FloorDiv", "Pow", "MatMult"}}
    \cup {UnaryOp(op, a) : op \in {"USub", "UAdd", "Not", "Invert"}, a \in Leaves}
    \cup {Compare(a, op, b) : a \in Operands, b \in Operands,
                              op \in {"Gt", "LtE", "Eq", "In"}}
    \cup {Call(f, <<a>>) : f \in Callees, a \in Operands}
    \cup {Call(f, <<a, b>>) : f \in Callees, a \in Operands, b \in Operands}
    \cup {Call(Name("max"), <<a, Node("keyword", "key", NoConst, <<Name("abs")>>)>>) :
              a \in Operands}
    \cup {Attribute(a, "real") : a \in Leaves}
    \cup {Node(k, "", NoConst, <<a>>) : k \in {"List", "Tuple", "Await"}, a \in Operands}
    \cup {Call(Name("max"), <<Node("Starred", "", NoConst, <<a>>)>>) : a \in Operands}
    \cup {Node("Subscript", "", NoConst, <<a, Num(0)>>) : a \in Operands}
    \cup {Node("BoolOp", "", NoConst, <<Op("And"), a, b>>) : a \in Operands, b \in Operands}

Level2 ==
    Level1
    \cup {Call(Name(f), <<x, Num(0)>>) : f \in {"max", "foo"}, x \in Level1}
    \cup {IfExp(Compare(Name("S"), "Gt", Num(100)), x, Num(0)) : x \in Level1}
    \cup {BinOp(Num(100), "Div", x) : x \in Level1}
    \cup {UnaryOp("USub", x) : x \in Level1}

SandboxInputs ==
    {[form |-> "expr", tree |-> t] : t \in Level2}
    \cup {[form |-> "stmt", tree |-> Node("Assign", "", NoConst, <<Name("x"), Num(0)>>)],
          [form |-> "stmt", tree |-> Node("Import", "", NoConst, <<Node("alias", "os", NoConst, <<>>)>>)],
          [form |-> "stmt", tree |-> Node("Assign", "", NoConst, <<Name("S"), Name("S")>>)],
          [form |-> "malformed", tree |-> NoNode]}

InitSandboxVars ==
    /\ payoff_fn = NoNode
    /\ sb_err = ""
    /\ sb_msg = <<>>
    /\ compile_calls = 0
    /\ eval_calls = 0
    /\ value = NoOutcome

(*************************************************************************)
(* price_option_monte_carlo, src/monte_carlo_pricing.py.                 *)
(*                                                                       *)
(* An Optional[int] seed is a sequence of length at most one.            *)
(* random.Random is modelled by a small congruential generator: the      *)
(* state is a function of the seed alone, and each normalvariate call    *)
(* advances it once and returns a variate in {-1, 0, 1}.                 *)
(*************************************************************************)
NoRng == <<>>

NoMcCoeff == [drift |-> NoValue, diffusion |-> NoValue]

NoMcParams ==
    [spot |-> 0, maturity |-> 0, rate |-> 0, volatility |-> 0,
     simulations |-> 0, seed |-> <<>>]

\* _validate_monte_carlo_parameters: TRUE when it raises
\* InvalidMonteCarloParameterError.
validate_monte_carlo_parameters_raises(p) ==
    \/ p.spot <= 0
    \/ p.maturity <= 0
    \/ p.volatility <= 0
    \/ p.simulations <= 0

RngStates == 0..6

\* A generator that ignores the seed it is given.
random_Random_unseeded(seed, entropy) == entropy

\* random.Random(seed): seeded from the seed, or from OS entropy when the
\* seed is None.
random_Random(seed, entropy) ==
    IF seed = <<>> THEN entropy ELSE (5 * seed[1] + 2) % 7

\* One step of the generator behind rng.normalvariate(0.0, 1.0).
rng_advance(state) == (3 * state + 1) % 7

\* The variate returned for the advanced state.
rng_variate(state) == (state % 3) - 1

\* Lines 149-150.
McDerive(p) ==
    [drift |-> RMul(RSub(Q(p.rate), RMul(Rat(1, 2), Q(p.volatility * p.volatility))),
                    Q(p.maturity)),
     diffusion |-> Q(p.volatility * math_sqrt(p.maturity))]

\* Line 155: spot * exp(drift + diffusion * z).
TerminalPrice(p, c, z) ==
    RMul(Q(p.spot), math_exp(RAdd(c.drift, RMul(c.diffusion, Q(z))).n))

\* A loop body that leaves a failing path out of the sum and goes on.
Accumulate_skip(sum, r) ==
    [raised |-> FALSE, err |-> "",
     sum |-> IF r.t = "exception" THEN sum ELSE RAdd(sum, r.q)]

\* Line 156: payoff_sum += payoff(terminal_price); an exception raised by
\* the payoff leaves price_option_monte_carlo.
Accumulate(sum, r) ==
    IF r.t = "exception"
    THEN [raised |-> TRUE, err |-> r.s, sum |-> sum]
    ELSE [raised |-> FALSE, err |-> "", sum |-> RAdd(sum, r.q)]

\* Lines 158-159.
Discounted(p, sum) ==
    RMul(math_exp(-p.rate * p.maturity), RDiv(sum, Q(p.simulations)))

\* Largest number of simulated paths drawn.
MaxSims == 3

\* Largest number of successive calls.
MaxCalls == 3

\* A valid call is drawn only when math_exp and math_sqrt are exact on it.
McRepresentable(p) ==
    validate_monte_carlo_parameters_raises(p) \/
        (IsSquare(p.maturity) /\ (p.volatility * p.volatility) % 2 = 0)

MCInputs ==
    LET valid == [spot : {100}, maturity : {1}, rate : {2}, volatility : {2},
                  simulations : 1..MaxSims, seed : {<<>>, <<1>>, <<2>>}]
        base  == [spot |-> 100, maturity |-> 1, rate |-> 2, volatility |-> 2,
                  simulations |-> 2, seed |-> <<1>>]
    IN  { p \in valid : McRepresentable(p) }
        \cup { [base EXCEPT !.spot = v] : v \in {-1, 0} }
        \cup { [base EXCEPT !.maturity = v] : v \in {-1, 0} }
        \cup { [base EXCEPT !.volatility = v] : v \in {-1, 0} }
        \cup { [base EXCEPT !.simulations = v] : v \in {-1, 0} }

\* Payoff texts whose compiled callables are passed to the engine.
MCPayoffTexts ==
    {[form |-> "expr", tree |-> t] :
        t \in {Call(Name("max"), <<BinOp(Name("S"), "Sub", Num(100)), Num(0)>>),
               BinOp(Num(100), "Div", BinOp(Name("S"), "Sub", Num(100))),
               Name("x")}}

MCPayoffs ==
    { build_payoff_function(t).fn : t \in { x \in MCPayoffTexts : build_payoff_function(x).err = "" } }

McResetLocals ==
    /\ mc_params' = NoMcParams
    /\ rng' = NoRng
    /\ mc_coeff' = NoMcCoeff
    /\ payoff_sum' = NoValue
    /\ path' = 0
    /\ draws' = <<>>
    /\ mc_price' = NoValue
    /\ mc_err' = ""

\* The caller calls price_option_monte_carlo(params, payoff): line 146.
MCCall ==
    /\ mc_pc = "idle"
    /\ calls < MaxCalls
    /\ calls' = calls + 1
    /\ \E p \in MCInputs :
          /\ mc_params' = p
          /\ IF validate_monte_carlo_parameters_raises(p)
             THEN /\ mc_pc' = "raised"
                  /\ mc_err' = "InvalidMonteCarloParameterError"
             ELSE /\ mc_pc' = "validated"
                  /\ UNCHANGED mc_err
    /\ UNCHANGED <<mc_payoff, rng, mc_coeff, payoff_sum, path, draws, mc_price, history>>
    /\ UNCHANGED <<lat_vars, sb_vars>>

\* Lines 148-152.
MCSetup ==
    /\ mc_pc = "validated"
    /\ \E entropy \in RngStates : rng' = <<random_Random(mc_params.seed, entropy)>>
    /\ mc_coeff' = McDerive(mc_params)
    /\ payoff_sum' = Q(0)
    /\ mc_pc' = "loop"
    /\ UNCHANGED <<mc_params, mc_payoff, path, draws, mc_price, mc_err, history, calls>>
    /\ UNCHANGED <<lat_vars, sb_vars>>

\* Lines 153-156: one pass of the loop body.
MCPath ==
    /\ mc_pc = "loop"
    /\ path < mc_params.simulations
    /\ LET state == rng_advance(rng[1])
           z     == rng_variate(state)
           r     == payoff_call(mc_payoff, TerminalPrice(mc_params, mc_coeff, z))
           a     == Accumulate(payoff_sum, r)
       IN  /\ rng' = <<state>>
           /\ draws' = Append(draws, z)
           /\ IF a.raised
              THEN /\ mc_pc' = "raised"
                   /\ mc_err' = a.err
                   /\ UNCHANGED <<payoff_sum, path>>
              ELSE /\ payoff_sum' = a.sum
                   /\ path' = path + 1
                   /\ UNCHANGED <<mc_pc, mc_err>>
    /\ UNCHANGED <<mc_params, mc_payoff, mc_coeff, mc_price, history, calls>>
    /\ UNCHANGED <<lat_vars, sb_vars>>

\* Lines 158-159.
MCFinish ==
    /\ mc_pc = "loop"
    /\ path >= mc_params.simulations
    /\ mc_price' = Discounted(mc_params, payoff_sum)
    /\ mc_pc' = "done"
    /\ UNCHANGED <<mc_params, mc_payoff, rng, mc_coeff, payoff_sum, path, draws, mc_err, history, calls>>
    /\ UNCHANGED <<lat_vars, sb_vars>>

\* What the history keeps of a call that ran unseeded or was rejected by
\* the validation: only that it took place.
OtherCall == [params |-> NoMcParams, draws |-> <<>>, price |-> NoValue, err |-> "other"]

\* What the history keeps of a finished call.
Finished ==
    IF mc_params.seed # <<>> /\ mc_err # "InvalidMonteCarloParameterError"
    THEN [params |-> mc_params, draws |-> draws, price |-> mc_price, err |-> mc_err]
    ELSE OtherCall

\* The call returns or raises to the caller; its locals are gone.
MCReturn ==
    /\ mc_pc \in {"done", "raised"}
    /\ history' = Append(history, Finished)
    /\ McResetLocals
    /\ mc_pc' = "idle"
    /\ UNCHANGED <<mc_payoff, calls>>
    /\ UNCHANGED <<lat_vars, sb_vars>>

NextMC == MCCall \/ MCSetup \/ MCPath \/ MCFinish \/ MCReturn

(*************************************************************************)
(* Specifications: one per entry point, and all of them together.        *)
(*************************************************************************)
NoParams ==
    [spot |-> 0, strike |-> 0, maturity |-> 0, rate |-> 0, volatility |-> 0,
     steps |-> 0, dividend_yield |-> 0, option_type |-> "", american |-> FALSE]

IdleLattice ==
    /\ lat_pc = "idle"
    /\ params = NoParams
    /\ InitLatticeVars

IdleSandbox ==
    /\ sb_pc = "idle"
    /\ expression = [form |-> "", tree |-> NoNode]
    /\ InitSandboxVars

IdleMC ==
    /\ mc_pc = "off"
    /\ mc_params = NoMcParams
    /\ mc_payoff = NoNode
    /\ rng = NoRng
    /\ mc_coeff = NoMcCoeff
    /\ payoff_sum = NoValue
    /\ path = 0
    /\ draws = <<>>
    /\ mc_price = NoValue
    /\ mc_err = ""
    /\ history = <<>>
    /\ calls = 0

InitLattice ==
    /\ lat_pc = "call"
    /\ params \in LatticeInputs
    /\ InitLatticeVars
    /\ IdleSandbox
    /\ IdleMC

InitSandbox ==
    /\ sb_pc = "call"
    /\ expression \in SandboxInputs
    /\ InitSandboxVars
    /\ IdleLattice
    /\ IdleMC

InitMC ==
    /\ mc_pc = "idle"
    /\ mc_payoff \in MCPayoffs
    /\ mc_params = NoMcParams
    /\ rng = NoRng
    /\ mc_coeff = NoMcCoeff
    /\ payoff_sum = NoValue
    /\ path = 0
    /\ draws = <<>>
    /\ mc_price = NoValue
    /\ mc_err = ""
    /\ history = <<>>
    /\ calls = 0
    /\ IdleLattice
    /\ IdleSandbox

SpecLattice == InitLattice /\ [][NextLattice]_vars

SpecSandbox == InitSandbox /\ [][NextSandbox]_vars

SpecMC == InitMC /\ [][NextMC]_vars

Init == InitLattice \/ InitSandbox \/ InitMC

Next == NextLattice \/ NextSandbox \/ NextMC

Spec == Init /\ [][Next]_vars

(*************************************************************************)
(* Properties of build_payoff_function.                                  *)
(*************************************************************************)
RECURSIVE Nodes(_)
\* Every node of a syntax tree.
Nodes(node) ==
    {node} \cup UNION { Nodes(node.kids[k]) : k \in 1..Len(node.kids) }

Built == sb_pc \notin {"idle", "call"}

\* The text is a statement, or its tree holds an attribute access, a bare
\* identifier outside S/max/min/abs/math, or a node kind outside the
\* allow-list.
OutsideAllowList(text) ==
    \/ text.form = "stmt"
    \/ /\ text.form = "expr"
       /\ \E n \in Nodes(text.tree) :
             \/ n.kind = "Attribute"
             \/ n.kind = "Name" /\ n.id \notin {"S", "max", "min", "abs", "math"}
             \/ n.kind \notin _ALLOWED_NODES

IsMathCall(text) ==
    /\ text.form = "expr"
    /\ text.tree.kind = "Call"
    /\ text.tree.kids[1].kind = "Attribute"
    /\ text.tree.kids[1].id \in {"exp", "log"}
    /\ text.tree.kids[1].kids = <<Name("math")>>
    /\ \A k \in 2..Len(text.tree.kids) : text.tree.kids[k] \in {Name("S"), Num(100)}

\* C2: a call whose callee is a qualified member of the math namespace
\* (math.exp(S), math.log(S)) compiles and a callable is returned.
C2_MathCallsAccepted ==
    (Built /\ IsMathCall(expression)) =>
        /\ sb_pc = "returned"
        /\ sb_err = ""
        /\ payoff_fn # NoNode

\* The name by which a call names its callee.
CalleeName(f) == IF f.kind \in {"Name", "Attribute"} THEN f.id ELSE f.kind

\* What a rejected text offends with: a statement kind, a disallowed node
\* kind, an unknown bare identifier, the disallowed callee of a call.
Offenders(text) ==
    IF text.form = "stmt" THEN {text.tree.kind}
    ELSE LET ns == Nodes(text.tree)
         IN  { n.kind : n \in { m \in ns : m.kind \notin _ALLOWED_NODES } }
             \cup { n.id : n \in { m \in ns : m.kind = "Name"
                                      /\ m.id \notin {"S", "max", "min", "abs", "math"} } }
             \cup { CalleeName(n.kids[1]) :
                       n \in { m \in ns : m.kind = "Call"
                                  /\ ~(m.kids[1].kind = "Name"
                                       /\ m.kids[1].id \in {"max", "min", "abs", "math"}) } }

\* C7: the message of every InvalidPayoffError raised for a construct
\* outside the allow-list names the offending construct or identifier.
C7_MessageNamesOffender ==
    (sb_err = "InvalidPayoffError" /\ expression.form \in {"expr", "stmt"}) =>
        \E k \in 1..Len(sb_msg) : sb_msg[k] \in Offenders(expression)

\* The text holds a literal that is not a number.
HasNonNumericLiteral(text) ==
    /\ text.form = "expr"
    /\ \E n \in Nodes(text.tree) :
          n.kind = "Constant" /\ n.const.ctype \notin {"int", "float"}

\* C9: a text holding a non-numeric literal (string, bytes, None,
\* True/False, Ellipsis) is rejected with InvalidPayoffError and never
\* gives a callable.
C9_OnlyNumericLiterals ==
    (Built /\ HasNonNumericLiteral(expression)) =>
        /\ sb_pc = "raised"
        /\ sb_err = "InvalidPayoffError"
        /\ payoff_fn = NoNode

(*************************************************************************)
(* Properties of price_option_monte_carlo.                               *)
(*************************************************************************)
IsPrefix(a, b) == Len(a) <= Len(b) /\ \A k \in 1..Len(a) : a[k] = b[k]

Recorded == { k \in 1..Len(history) : history[k].err # "other" }

\* C5: calls with the same seed, parameters and payoff draw the same
\* variates in the same order and end the same way, whatever calls were
\* made before or between them; the seed alone fixes the sequence drawn;
\* one variate is drawn per simulated path.
C5_SeedDeterminesRun ==
    /\ \A i \in Recorded : \A j \in Recorded :
          /\ history[i].params = history[j].params => history[i] = history[j]
          /\ history[i].params.seed = history[j].params.seed =>
                 \/ IsPrefix(history[i].draws, history[j].draws)
                 \/ IsPrefix(history[j].draws, history[i].draws)
    /\ \A i \in Recorded :
          /\ history[i].err = "" =>
                 Len(history[i].draws) = history[i].params.simulations
          /\ (mc_pc \in {"loop", "done", "raised"} /\ mc_params.seed = history[i].params.seed) =>
                 \/ IsPrefix(history[i].draws, draws)
                 \/ IsPrefix(draws, history[i].draws)
    /\ mc_pc = "loop" => Len(draws) = path
    /\ mc_pc = "done" => Len(draws) = mc_params.simulations

\* A seeded call priced twice with another call in between.
C5_Witness ==
    /\ Len(history) = 3
    /\ history[1].err = ""
    /\ history[1].params.simulations >= 2
    /\ history[3].params = history[1].params
    /\ history[2] # history[1]

\* The payoff at the terminal price of the k-th variate drawn.
PayoffAtDraw(p, c, ds, k) == payoff_call(mc_payoff, TerminalPrice(p, c, ds[k]))

RECURSIVE SumOfPayoffs(_, _, _, _)
SumOfPayoffs(p, c, ds, k) ==
    IF k = 0 THEN Q(0)
    ELSE RAdd(SumOfPayoffs(p, c, ds, k - 1), PayoffAtDraw(p, c, ds, k).q)

\* C6: a payoff evaluation that fails at any path ends the call with
\* that error and no price; a returned price is the discounted average
\* over all the requested paths, none skipped or counted as zero.
C6_FailingPathAborts ==
    /\ \A k \in 1..Len(draws) :
          PayoffAtDraw(mc_params, mc_coeff, draws, k).t = "exception" =>
              /\ mc_pc = "raised"
              /\ mc_err = PayoffAtDraw(mc_params, mc_coeff, draws, k).s
              /\ mc_price = NoValue
              /\ k = Len(draws)
    /\ mc_price # NoValue =>
          /\ Len(draws) = mc_params.simulations
          /\ mc_price = Discounted(mc_params,
                                   SumOfPayoffs(mc_params, mc_coeff, draws, Len(draws)))
    /\ \A i \in Recorded :
          LET h == history[i]
          IN  IF h.err # "" THEN h.price = NoValue
              ELSE h.price # NoValue /\ Len(h.draws) = h.params.simulations

\* A call has been aborted by a division by zero at a path after the
\* first.
C6_Witness ==
    /\ mc_pc = "raised"
    /\ mc_err = "ZeroDivisionError"
    /\ Len(draws) >= 2

(*************************************************************************)
(* Both entry points.                                                    *)
(*************************************************************************)
NonPositiveLattice(p) ==
    \/ p.spot <= 0 \/ p.strike <= 0 \/ p.maturity <= 0 \/ p.volatility <= 0
    \/ p.steps <= 0 \/ p.option_type \notin {"call", "put"}

NonPositiveMC(p) ==
    p.spot <= 0 \/ p.maturity <= 0 \/ p.volatility <= 0 \/ p.simulations <= 0

\* C3: price_option raises InvalidParameterError on a non-positive spot,
\* strike, maturity, volatility or steps (or an unknown option type)
\* before anything is derived or built; price_option_monte_carlo raises
\* InvalidMonteCarloParameterError on a non-positive spot, maturity,
\* volatility or simulations before the generator is made, a variate is
\* drawn or the payoff is evaluated.
C3_NonPositiveRejectedFirst ==
    /\ (lat_pc \notin {"idle", "call"} /\ NonPositiveLattice(params)) =>
           /\ lat_pc = "raised"
           /\ lat_err = "InvalidParameterError"
           /\ coeff = NoCoeff
           /\ asset_prices = <<>>
           /\ option_values = <<>>
           /\ price = NoValue
    /\ (mc_pc \notin {"off", "idle"} /\ NonPositiveMC(mc_params)) =>
           /\ mc_pc = "raised"
           /\ mc_err = "InvalidMonteCarloParameterError"
           /\ rng = NoRng
           /\ mc_coeff = NoMcCoeff
           /\ payoff_sum = NoValue
           /\ draws = <<>>
           /\ path = 0
           /\ mc_price = NoValue

\* A Monte Carlo call with a non-positive simulation count was rejected.
C3_Witness ==
    /\ mc_pc = "raised"
    /\ mc_params.simulations <= 0
    /\ mc_params.spot > 0

=============================================================================
